---------------------------- MODULE Spec2Model ----------------------------
(***************************************************************************)
(* A model of the a3t speech toolkit utilities:                            *)
(*   - make_batchset and load_labeldict   (src/src/asr/asr_utils.py)       *)
(*   - the check_install script           (src/tools/check_install.py)     *)
(*   - Frontend.forward   (src/espnet/nets/pytorch_backend/frontends/      *)
(*                         frontend.py)                                    *)
(*   - WaveNetResidualBlock (src/espnet2/gan_tts/vits/residual_block.py)   *)
(* Each component has its own variables and its own specification; the     *)
(* variables of the other components stay at their idle values.            *)
(***************************************************************************)
EXTENDS Integers, Sequences, FiniteSets

VARIABLES
    \* ---- make_batchset ----
    data,            \* the data mapping, in iteration order: <<[utt, ilen, olen], ...>>
    batch_size,      \* argument batch_size
    max_length_in,   \* argument max_length_in
    max_length_out,  \* argument max_length_out
    num_batches,     \* argument num_batches
    sorted_data,     \* local sorted_data
    minibatch,       \* local minibatch: a sequence of batches
    start,           \* local start (0-based, as in the code)
    mb_pc            \* position in make_batchset

VARIABLES
    \* ---- load_labeldict ----
    dict_file,       \* the lines of dict_file, each <<symbol, id digits>>
    labeldict,       \* local labeldict: a function from its keys to ids
    ld_line,         \* number of lines already read
    ld_pc            \* position in load_labeldict

VARIABLES
    \* ---- Frontend ----
    use_wpe,               \* self.use_wpe
    use_beamformer,        \* self.use_beamformer
    use_dnn_mask_for_wpe,  \* self.use_dnn_mask_for_wpe
    training,              \* self.training (torch.nn.Module mode flag)
    fe_calls               \* the forward calls made so far, with their results

VARIABLES
    \* ---- check_install ----
    lines,                      \* the lines of the requirements file
    installed,                  \* the environment: module name -> what importing it gives
    library_list,               \* library_list: <<[name, version], ...>>
    is_collect_installed_list,  \* is_collect_installed_list: the entries set so far
    ci_idx,                     \* the loop index (0-based)
    ci_warnings,                \* the logging.warn calls made, each with the value
                                \* of idx at the call: <<[idx, kind], ...>>
    ci_exc,                     \* the uncaught exception, if any: [type, line]
    ci_pc                       \* position in the script

VARIABLES
    \* ---- WaveNetResidualBlock ----
    rb_args,         \* the constructor's arguments
    rb_layers,       \* what the constructor built: padding and the 1x1 layers present
    rb_out,          \* the result of the last forward call
    rb_pc            \* position: "new", "ready" or "AssertionError"

VARIABLES
    \* ---- CompareValueTrigger ----
    compare_fn,      \* self._compare_fn: "lt" is best < value, "gt" is best > value
    best_value,      \* self._best_value: None or a value
    summary,         \* self._summary: sum and count of the key's observations
    tr_means,        \* the interval means computed so far, in order
    tr_fired,        \* the number of calls on which the interval trigger fired
    tr_calls,        \* the number of calls made
    tr_last          \* the last call: its inputs, the state it found, its outcome

mb_vars == <<data, batch_size, max_length_in, max_length_out, num_batches,
             sorted_data, minibatch, start, mb_pc>>
ld_vars == <<dict_file, labeldict, ld_line, ld_pc>>
fe_vars == <<use_wpe, use_beamformer, use_dnn_mask_for_wpe, training, fe_calls>>

ci_vars == <<lines, installed, library_list, is_collect_installed_list, ci_idx,
             ci_warnings, ci_exc, ci_pc>>
rb_vars == <<rb_args, rb_layers, rb_out, rb_pc>>

tr_vars == <<compare_fn, best_value, summary, tr_means, tr_fired, tr_calls, tr_last>>

vars == <<mb_vars, ld_vars, fe_vars, ci_vars, rb_vars, tr_vars>>

\* ------------------------------------------------------------------------
\* Generic helpers
\* ------------------------------------------------------------------------
Max(a, b) == IF a >= b THEN a ELSE b
Min(a, b) == IF a <= b THEN a ELSE b

\* s[lo..hi) with 0-based bounds, as the Python slice s[lo:hi]
MutSlice(s, lo, hi) == [k \in 1..(hi - lo - 1) |-> s[lo + k]]
Slice(s, lo, hi) == [k \in 1..(hi - lo) |-> s[lo + k]]

\* ------------------------------------------------------------------------
\* make_batchset
\* ------------------------------------------------------------------------
MaxUtts == 4            \* largest number of utterances in the data mapping
MaxBatchSize == 4       \* largest batch_size argument
MaxNumBatches == 1      \* largest num_batches argument
InputLengths == {1, 2, 5}    \* values of input[0].shape[0]
OutputLengths == {0, 1}      \* values of output[0].shape[0]
MaxLengthIns == {1, 2, 3}    \* values of max_length_in
MaxLengthOuts == {1}         \* values of max_length_out

\* An utterance descriptor: its key and the two lengths make_batchset reads.
Utts(n) == [1..n -> InputLengths \X OutputLengths]
MkData(f) == [i \in DOMAIN f |-> [utt |-> i, ilen |-> f[i][1], olen |-> f[i][2]]]

\* Insert e after every element whose key is >= e's key: one step of a stable
\* sort by ilen, long to short.
RECURSIVE InsertDesc(_, _)
InsertDesc(s, e) ==
    IF s = <<>> THEN <<e>>
    ELSE IF Head(s).ilen >= e.ilen THEN <<Head(s)>> \o InsertDesc(Tail(s), e)
    ELSE <<e>> \o s

\* sorted(data.items(), key=ilen, reverse=True): stable, descending
RECURSIVE SortedFrom(_, _)
SortedFrom(acc, rest) ==
    IF rest = <<>> THEN acc
    ELSE SortedFrom(InsertDesc(acc, Head(rest)), Tail(rest))

MutSortByInputLength(d) == d
SortByInputLength(d) == SortedFrom(<<>>, d)

\* factor = max(int(ilen / max_length_in), int(olen / max_length_out))
Factor(ilen, olen, mli, mlo) == Max(ilen \div mli, olen \div mlo)

\* b = max(1, int(batch_size / (1 + factor)))
MutBatchSizeFor(bs, factor) == Max(1, bs \div Max(1, factor))
BatchSizeFor(bs, factor) == Max(1, bs \div (1 + factor))

MbStart ==
    /\ \E n \in 0..MaxUtts : \E f \in Utts(n) : data = MkData(f)
    /\ batch_size \in 1..MaxBatchSize
    /\ max_length_in \in MaxLengthIns
    /\ max_length_out \in MaxLengthOuts
    /\ num_batches \in 0..MaxNumBatches
    /\ sorted_data = <<>>
    /\ minibatch = <<>>
    /\ start = 0
    /\ mb_pc = "sort"

\* lines 28-33: sort, then minibatch = [], start = 0
MbSort ==
    /\ mb_pc = "sort"
    /\ sorted_data' = SortByInputLength(data)
    /\ minibatch' = <<>>
    /\ start' = 0
    /\ mb_pc' = "loop"
    /\ UNCHANGED <<data, batch_size, max_length_in, max_length_out, num_batches>>

\* lines 35-36 on an index past the end: sorted_data[start] raises IndexError
MbIndexError ==
    /\ mb_pc = "loop"
    /\ start >= Len(sorted_data)
    /\ mb_pc' = "IndexError"
    /\ UNCHANGED <<data, batch_size, max_length_in, max_length_out, num_batches,
                   sorted_data, minibatch, start>>

\* lines 35-46: one iteration of the while loop
MbIterate ==
    /\ mb_pc = "loop"
    /\ start < Len(sorted_data)
    /\ LET first == sorted_data[start + 1]
           factor == Factor(first.ilen, first.olen, max_length_in, max_length_out)
           b == BatchSizeFor(batch_size, factor)
           end == Min(Len(sorted_data), start + b)
       IN /\ minibatch' = Append(minibatch, Slice(sorted_data, start, end))
          /\ IF end = Len(sorted_data)
             THEN /\ mb_pc' = "truncate"
                  /\ start' = start
             ELSE /\ mb_pc' = "loop"
                  /\ start' = end
    /\ UNCHANGED <<data, batch_size, max_length_in, max_length_out, num_batches,
                   sorted_data>>

\* lines 47-51: keep the first num_batches batches when num_batches > 0, return
MbReturn ==
    /\ mb_pc = "truncate"
    /\ minibatch' = IF num_batches > 0
                    THEN Slice(minibatch, 0, Min(num_batches, Len(minibatch)))
                    ELSE minibatch
    /\ mb_pc' = "done"
    /\ UNCHANGED <<data, batch_size, max_length_in, max_length_out, num_batches,
                   sorted_data, start>>

\* make_batchset not called
MbIdle ==
    /\ data = <<>>
    /\ batch_size = 1
    /\ max_length_in = 1
    /\ max_length_out = 1
    /\ num_batches = 0
    /\ sorted_data = <<>>
    /\ minibatch = <<>>
    /\ start = 0
    /\ mb_pc = "idle"

\* ------------------------------------------------------------------------
\* load_labeldict
\* ------------------------------------------------------------------------
MaxDictLines == 2       \* largest number of lines in the dictionary file
MaxDigits == 2          \* largest number of digits of an id in the file
Symbols == {"<blank>", "<eos>", "a", "b"}
Digits == {0, 1, 2}

IdTokens == UNION {[1..n -> Digits] : n \in 1..MaxDigits}
DictLines == Symbols \X IdTokens

\* int(i) on a string of decimal digits
RECURSIVE ParseInt(_)
ParseInt(ds) ==
    IF ds = <<>> THEN 0
    ELSE 10 * ParseInt(SubSeq(ds, 1, Len(ds) - 1)) + ds[Len(ds)]

\* labeldict[s] = i
DictSet(d, s, i) == [k \in DOMAIN d \cup {s} |-> IF k = s THEN i ELSE d[k]]

\* len(labeldict)
DictLen(d) == Cardinality(DOMAIN d)

LdStart ==
    /\ \E n \in 0..MaxDictLines : dict_file \in [1..n -> DictLines]
    /\ labeldict = <<>>
    /\ ld_line = 0
    /\ ld_pc = "open"

\* line 256: labeldict = {'<blank>': 0}
LdOpen ==
    /\ ld_pc = "open"
    /\ labeldict' = [k \in {"<blank>"} |-> 0]
    /\ ld_line' = 0
    /\ ld_pc' = "read"
    /\ UNCHANGED dict_file

\* lines 257-259: s, i = ln.split(); labeldict[s] = int(i)
LdReadLine ==
    /\ ld_pc = "read"
    /\ ld_line < Len(dict_file)
    /\ LET ln == dict_file[ld_line + 1]
       IN labeldict' = DictSet(labeldict, ln[1], ParseInt(ln[2]))
    /\ ld_line' = ld_line + 1
    /\ UNCHANGED <<dict_file, ld_pc>>

\* lines 260-262: add <eos> when absent, return
LdFinish ==
    /\ ld_pc = "read"
    /\ ld_line = Len(dict_file)
    /\ labeldict' = IF "<eos>" \notin DOMAIN labeldict
                    THEN DictSet(labeldict, "<eos>", DictLen(labeldict))
                    ELSE labeldict
    /\ ld_pc' = "done"
    /\ UNCHANGED <<dict_file, ld_line>>

\* load_labeldict not called
LdIdle ==
    /\ dict_file = <<>>
    /\ labeldict = <<>>
    /\ ld_line = 0
    /\ ld_pc = "idle"

\* ------------------------------------------------------------------------
\* Frontend
\* ------------------------------------------------------------------------
MaxCalls == 2           \* largest number of forward calls recorded
InputDims == 0..5       \* values of x.dim()

\* The input tensor x and what a stage returns for it: a tensor is named by the
\* input it derives from and the stages applied to it, with its dimensions.
InputTensor(d) == [src |-> "x", ops |-> <<>>, dim |-> d]
\* The lengths: the input's values, the stages applied, and whether a tensor
InputLens(isTensor) == [src |-> "ilens", ops |-> <<>>, tensor |-> isTensor]
NoTensor == [src |-> "none", ops |-> <<>>, dim |-> 0]
NoLens == [src |-> "none", ops |-> <<>>, tensor |-> FALSE]

\* line 78: x.dim() in (3, 4)
MutDimOk(d) == d >= 3
DimOk(d) == d \in {3, 4}

\* line 84: h.dim() == 4
MutIsMultiChannel(d) == d >= 3
IsMultiChannel(d) == d = 4

\* lines 88-89: the outcomes of numpy.random.shuffle([True, False])
Shuffles == {<<TRUE, FALSE>>, <<FALSE, TRUE>>}

\* lines 85-86: the condition of the random selection
RandomSelect(t, wpe, bf, mask) == t /\ bf /\ wpe /\ mask

\* lines 85-94: the pair (use_wpe, use_beamformer) of this call
MutSelectStages(t, wpe, bf, mask, true_false) == <<wpe, bf>>
SelectStages(t, wpe, bf, mask, true_false) ==
    IF RandomSelect(t, wpe, bf, mask) THEN <<true_false[1], true_false[2]>>
    ELSE <<wpe, bf>>

\* line 99: h, ilens = self.wpe(h, ilens); (B, T, C, F) -> (B, T, C, F)
ApplyWPE(h) == [h EXCEPT !.ops = Append(@, "wpe")]
\* line 104: h, ilens = self.beamformer(h, ilens); (B, T, C, F) -> (B, T, F)
ApplyBeamformer(h) == [src |-> h.src, ops |-> Append(h.ops, "beamformer"), dim |-> 3]
\* the lengths a stage returns with its tensor
StageLens(l, stage) == [l EXCEPT !.ops = Append(@, stage)]

\* line 81: ilens = torch.from_numpy(numpy.asarray(ilens)) unless a tensor already
ToTensor(l) == [l EXCEPT !.tensor = TRUE]

\* lines 83-106: the stages on h
MutRunStages(h0, l0, sel) ==
    LET h1 == IF sel[2] THEN ApplyBeamformer(h0) ELSE h0
        l1 == IF sel[2] THEN StageLens(l0, "beamformer") ELSE l0
        h2 == IF sel[1] THEN ApplyWPE(h1) ELSE h1
        l2 == IF sel[1] THEN StageLens(l1, "wpe") ELSE l1
    IN [h |-> h2, ilens |-> l2]
RunStages(h0, l0, sel) ==
    LET h1 == IF sel[1] THEN ApplyWPE(h0) ELSE h0
        l1 == IF sel[1] THEN StageLens(l0, "wpe") ELSE l0
        h2 == IF sel[2] THEN ApplyBeamformer(h1) ELSE h1
        l2 == IF sel[2] THEN StageLens(l1, "beamformer") ELSE l1
    IN [h |-> h2, ilens |-> l2]

\* Frontend.forward(x, ilens): x has d dimensions, lenOk says len(x) == len(ilens),
\* isTensor says whether ilens is a tensor, true_false is the shuffled pair.
Forward(t, wpe, bf, mask, d, lenOk, isTensor, true_false) ==
    LET x == InputTensor(d)
        call == [dim |-> d, lenOk |-> lenOk, isTensor |-> isTensor, training |-> t]
        fail(e) == [call |-> call, outcome |-> e, h |-> NoTensor, ilens |-> NoLens]
    IN  IF d = 0 THEN fail("TypeError")                 \* len() of a 0-d tensor
        ELSE IF ~lenOk THEN fail("AssertionError")      \* line 76
        ELSE IF ~DimOk(d) THEN fail("ValueError")       \* lines 78-79
        ELSE LET l == ToTensor(InputLens(isTensor))
                 sel == SelectStages(t, wpe, bf, mask, true_false)
                 r == IF IsMultiChannel(d) THEN RunStages(x, l, sel)
                      ELSE [h |-> x, ilens |-> l]
             IN [call |-> call, outcome |-> "returned", h |-> r.h, ilens |-> r.ilens]

\* lines 13-71: a Frontend constructed with any options, in either mode
FeStart ==
    /\ use_wpe \in BOOLEAN
    /\ use_beamformer \in BOOLEAN
    /\ use_dnn_mask_for_wpe \in BOOLEAN
    /\ training \in BOOLEAN
    /\ fe_calls = <<>>

\* one call of Frontend.forward
FeForward ==
    /\ Len(fe_calls) < MaxCalls
    /\ \E d \in InputDims, lenOk \in BOOLEAN, isTensor \in BOOLEAN, true_false \in Shuffles :
          fe_calls' = Append(fe_calls,
              Forward(training, use_wpe, use_beamformer, use_dnn_mask_for_wpe,
                      d, lenOk, isTensor, true_false))
    /\ UNCHANGED <<use_wpe, use_beamformer, use_dnn_mask_for_wpe, training>>

\* no Frontend constructed
FeIdle ==
    /\ use_wpe = FALSE
    /\ use_beamformer = FALSE
    /\ use_dnn_mask_for_wpe = TRUE
    /\ training = TRUE
    /\ fe_calls = <<>>

\* ------------------------------------------------------------------------
\* check_install
\* ------------------------------------------------------------------------
MaxReqLines == 2        \* largest number of lines in the requirements file

\* A line is a string, modelled as a sequence of tokens: a library name, a
\* version, the separators "==" and ">=", and the newline readlines() keeps.
ReqLines == { <<"liba", "\n">>,
              <<"liba", "==", "v1", "\n">>,
              <<"libb", ">=", "v1", "\n">>,
              <<"libb", "==", "v2", "\n">>,
              <<"\n">>,
              <<"liba", "==", "v1", "==", "v2", "\n">>,
              <<"libb", ">=", "v1", ">=", "v2", "\n">> }

\* lines 12-16
MANUALLY_INSTALLED_LIBRARIES ==
    << [name |-> <<"matplotlib">>, pinned |-> FALSE, version |-> <<>>],
       [name |-> <<"chainer_ctc">>, pinned |-> FALSE, version |-> <<>>],
       [name |-> <<"warpctc_pytorch">>, pinned |-> FALSE, version |-> <<>>] >>

\* What importing a module gives: "absent" (ImportError), "noattr" (a module
\* without __version__), or the module's __version__.
Environments ==
    { [n \in {"liba", "libb", "matplotlib", "chainer_ctc", "warpctc_pytorch"} |->
          CASE n = "liba" -> a [] n = "libb" -> b [] n = "matplotlib" -> m
            [] n = "chainer_ctc" -> c [] OTHER -> w] :
        a \in {"absent", "noattr", "v1", "v2"}, b \in {"absent", "v1"},
        m \in {"absent", "noattr"}, c \in {"absent", "noattr"}, w \in {"absent", "noattr"} }

NoException == [type |-> "none", line |-> 0]

\* line.replace(old, '')
RECURSIVE Remove(_, _)
Remove(line, old) ==
    IF line = <<>> THEN <<>>
    ELSE IF Head(line) = old THEN Remove(Tail(line), old)
    ELSE <<Head(line)>> \o Remove(Tail(line), old)

\* sep in line
Contains(line, sep) == \E i \in 1..Len(line) : line[i] = sep

\* line.split(sep)
RECURSIVE Split(_, _)
Split(line, sep) ==
    IF Contains(line, sep)
    THEN LET i == CHOOSE j \in 1..Len(line) :
                     line[j] = sep /\ \A k \in 1..(j - 1) : line[k] # sep
         IN <<SubSeq(line, 1, i - 1)>> \o Split(SubSeq(line, i + 1, Len(line)), sep)
    ELSE <<line>>

\* lines 36-45: one requirements line to (name, version); unpacking anything but
\* two parts raises ValueError, at line 38 for "==" and at line 40 for ">="
ParseRequirement(ln) ==
    LET line == Remove(ln, "\n")
        NoLib == [name |-> <<>>, pinned |-> FALSE, version |-> <<>>]
    IN  IF Contains(line, "==")
        THEN LET parts == Split(line, "==")
             IN IF Len(parts) = 2
                THEN [exc |-> NoException,
                      lib |-> [name |-> parts[1], pinned |-> TRUE, version |-> parts[2]]]
                ELSE [exc |-> [type |-> "ValueError", line |-> 38], lib |-> NoLib]
        ELSE IF Contains(line, ">=")
        THEN LET parts == Split(line, ">=")
             IN IF Len(parts) = 2
                THEN [exc |-> NoException,
                      lib |-> [name |-> parts[1], pinned |-> FALSE, version |-> <<>>]]
                ELSE [exc |-> [type |-> "ValueError", line |-> 40], lib |-> NoLib]
        ELSE [exc |-> NoException,
              lib |-> [name |-> line, pinned |-> FALSE, version |-> <<>>]]

\* importlib.import_module(name): "ValueError" for the empty name, "absent" when
\* no such module is installed, else what the environment holds
ImportModule(env, name) ==
    IF name = <<>> THEN "ValueError"
    ELSE IF Len(name) = 1 /\ name[1] \in DOMAIN env THEN env[name[1]]
    ELSE "absent"

\* lines 55-70: the check of one library. The first import is guarded by
\* "except ImportError"; the second import and the read of __version__ are
\* guarded by "except AssertionError" alone. entry is what the check leaves in
\* is_collect_installed_list[idx]: <<>> while it is still None (the ValueError of
\* line 56 escapes before line 58 or 61 runs), else the value last assigned.
CheckLibrary(env, lib) ==
    LET m == ImportModule(env, lib.name)
        first == IF m = "absent" THEN [ok |-> FALSE, warnings |-> <<"not installed">>]
                 ELSE [ok |-> TRUE, warnings |-> <<>>]
    IN  IF m = "ValueError"
        THEN [exc |-> [type |-> "ValueError", line |-> 56], entry |-> <<>>,
              warnings |-> <<>>]
        ELSE IF ~lib.pinned
        THEN [exc |-> NoException, entry |-> <<first.ok>>, warnings |-> first.warnings]
        ELSE IF m = "absent"
        THEN [exc |-> [type |-> "ImportError", line |-> 64], entry |-> <<first.ok>>,
              warnings |-> first.warnings]
        ELSE IF m = "noattr"
        THEN [exc |-> [type |-> "AttributeError", line |-> 65], entry |-> <<first.ok>>,
              warnings |-> first.warnings]
        ELSE IF <<m>> = lib.version
        THEN [exc |-> NoException, entry |-> <<TRUE>>, warnings |-> first.warnings]
        ELSE [exc |-> NoException, entry |-> <<FALSE>>,
              warnings |-> Append(first.warnings, "version not matched")]

\* What the accelerator checks of lines 82-113 find: torch.cuda.is_available(),
\* torch.backends.cudnn.is_available(), chainer.backends.cuda.available,
\* chainer.backends.cuda.cudnn_enabled, whether cupy.cuda.nccl can be imported,
\* and torch.cuda.device_count() > 1. The script reads each on its own, in six
\* separate try blocks.
Accelerators ==
    [torch_cuda : BOOLEAN, torch_cudnn : BOOLEAN, chainer_cuda : BOOLEAN,
     chainer_cudnn : BOOLEAN, nccl : BOOLEAN, multi_gpu : BOOLEAN]

\* lines 82-113: the logging.warn calls of the accelerator checks, in order
CudaWarnings(a) ==
       (IF a.torch_cuda THEN <<>> ELSE <<"cuda not available in torch">>)
    \o (IF a.torch_cudnn THEN <<>> ELSE <<"cudnn not available in torch">>)
    \o (IF a.chainer_cuda THEN <<>> ELSE <<"cuda not available in chainer">>)
    \o (IF a.chainer_cudnn THEN <<>> ELSE <<"cudnn not available in chainer">>)
    \o (IF a.nccl THEN <<>> ELSE <<"nccl not installed", "install nccl for multi-gpu">>)
    \o (IF a.multi_gpu THEN <<>> ELSE <<"only single gpu", "maybe only one gpu">>)

\* sum(is_collect_installed_list)
RECURSIVE SumTrue(_)
SumTrue(bs) == IF bs = <<>> THEN 0 ELSE (IF Head(bs) THEN 1 ELSE 0) + SumTrue(Tail(bs))

\* lines 29-34: the file is read, library_list = []
CiStart ==
    /\ \E n \in 0..MaxReqLines : lines \in [1..n -> ReqLines]
    /\ installed \in Environments
    /\ library_list = <<>>
    /\ is_collect_installed_list = <<>>
    /\ ci_idx = 0
    /\ ci_warnings = <<>>
    /\ ci_exc = NoException
    /\ ci_pc = "parse"

\* lines 35-45: one iteration of the parse loop
CiParseLine ==
    /\ ci_pc = "parse"
    /\ ci_idx < Len(lines)
    /\ LET r == ParseRequirement(lines[ci_idx + 1])
       IN IF r.exc = NoException
          THEN /\ library_list' = Append(library_list, r.lib)
               /\ ci_idx' = ci_idx + 1
               /\ UNCHANGED <<ci_pc, ci_exc>>
          ELSE /\ ci_pc' = "crashed"
               /\ ci_exc' = r.exc
               /\ UNCHANGED <<library_list, ci_idx>>
    /\ UNCHANGED <<lines, installed, is_collect_installed_list, ci_warnings>>

\* lines 48-53: extend by the manual libraries; is_collect_installed_list holds the
\* entries set so far (the entries still None are left out)
CiExtend ==
    /\ ci_pc = "parse"
    /\ ci_idx = Len(lines)
    /\ library_list' = library_list \o MANUALLY_INSTALLED_LIBRARIES
    /\ is_collect_installed_list' = <<>>
    /\ ci_idx' = 0
    /\ ci_pc' = "check"
    /\ UNCHANGED <<lines, installed, ci_warnings, ci_exc>>

\* lines 54-70: one iteration of the check loop
CiCheckLibrary ==
    /\ ci_pc = "check"
    /\ ci_idx < Len(library_list)
    /\ LET r == CheckLibrary(installed, library_list[ci_idx + 1])
       IN /\ ci_warnings' = ci_warnings \o
                 [k \in 1..Len(r.warnings) |-> [idx |-> ci_idx, kind |-> r.warnings[k]]]
          /\ is_collect_installed_list' = is_collect_installed_list \o r.entry
          /\ IF r.exc = NoException
             THEN /\ ci_idx' = ci_idx + 1
                  /\ UNCHANGED <<ci_pc, ci_exc>>
             ELSE /\ ci_pc' = "crashed"
                  /\ ci_exc' = r.exc
                  /\ UNCHANGED ci_idx
    /\ UNCHANGED <<lines, installed, library_list>>

\* lines 71-78: the summary; the cuda checks run when every library is installed
CiSummary ==
    /\ ci_pc = "check"
    /\ ci_idx = Len(library_list)
    /\ ci_pc' = IF Len(library_list) # SumTrue(is_collect_installed_list)
                THEN "done" ELSE "cuda"
    /\ UNCHANGED <<lines, installed, library_list, is_collect_installed_list, ci_idx,
                   ci_warnings, ci_exc>>

\* lines 79-114: import chainer, import torch (unguarded), then checks that only
\* warn. After the loop the variable idx still holds the last index.
CiCuda ==
    /\ ci_pc = "cuda"
    /\ \E chainer_ok \in BOOLEAN, torch_ok \in BOOLEAN, a \in Accelerators :
          IF chainer_ok /\ torch_ok
          THEN /\ ci_pc' = "done"
               /\ ci_warnings' = ci_warnings \o
                      [k \in 1..Len(CudaWarnings(a)) |->
                          [idx |-> Len(library_list) - 1, kind |-> CudaWarnings(a)[k]]]
               /\ UNCHANGED ci_exc
          ELSE /\ ci_pc' = "crashed"
               /\ ci_exc' = [type |-> "ImportError", line |-> IF chainer_ok THEN 81 ELSE 80]
               /\ UNCHANGED ci_warnings
    /\ UNCHANGED <<lines, installed, library_list, is_collect_installed_list, ci_idx>>

\* the script not run
CiIdle ==
    /\ lines = <<>>
    /\ installed = <<>>
    /\ library_list = <<>>
    /\ is_collect_installed_list = <<>>
    /\ ci_idx = 0
    /\ ci_warnings = <<>>
    /\ ci_exc = NoException
    /\ ci_pc = "idle"

\* ------------------------------------------------------------------------
\* WaveNetResidualBlock
\* ------------------------------------------------------------------------
MaxKernelSize == 3      \* largest kernel_size
MaxDilation == 2        \* largest dilation
MaxT == 3               \* largest time length of the input
BatchDims == {1, 2}            \* values of B
ResidualChannels == {1, 2}     \* values of residual_channels
GateChannels == {2, 4}         \* values of gate_channels (even: two halves)
SkipChannels == {-1, 0, 1, 2}  \* values of skip_channels
CondChannels == {-1, 3}        \* values of aux_channels and of global_channels

NoShape == <<>>
NoLayers == [padding |-> 0, has_aux |-> FALSE, has_glo |-> FALSE, has_skip |-> FALSE]
NoOutput == [outcome |-> "none", input |-> NoShape, x |-> NoShape, s |-> NoShape,
             skip_used |-> FALSE]

\* lines 79-83: padding of the dilated convolution
Padding(kernel_size, dilation, use_causal_conv) ==
    IF use_causal_conv THEN (kernel_size - 1) * dilation
    ELSE ((kernel_size - 1) \div 2) * dilation

\* line 82: the assertion on kernel_size, made for the non-causal convolution only
KernelSizeOk(kernel_size, use_causal_conv) ==
    use_causal_conv \/ (kernel_size - 1) % 2 = 0

\* lines 111-112: the skip projection is created only when skip_channels > 0
HasSkipLayer(skip_channels) == skip_channels > 0

\* lines 96-112: the layers the constructor builds
BuildLayers(a) ==
    [padding |-> Padding(a.kernel_size, a.dilation, a.use_causal_conv),
     has_aux |-> a.aux_channels > 0,
     has_glo |-> a.global_channels > 0,
     has_skip |-> HasSkipLayer(a.skip_channels)]

\* line 134: time length after torch.nn.Conv1d with stride 1
ConvOutLen(T, kernel_size, padding, dilation) ==
    T + 2 * padding - dilation * (kernel_size - 1)

\* the time length of a + b under broadcasting; 0 when the sizes do not match
Broadcast(a, b) ==
    IF a = b THEN a ELSE IF a = 1 THEN b ELSE IF b = 1 THEN a ELSE 0

\* lines 156-157: the skip output, present only when self.skip_channels > 0
MutSkipShape(skip_channels, B, T) ==
    IF skip_channels > 0 THEN <<B, skip_channels + 1, T>> ELSE NoShape
SkipShape(skip_channels, B, T) ==
    IF skip_channels > 0 THEN <<B, skip_channels, T>> ELSE NoShape

\* lines 132-162: forward(x, c, g) on x of shape (B, residual_channels, T), with c of
\* shape (B, aux_channels, T) when hasC and g of shape (B, global_channels, 1) when hasG
ForwardBlock(a, layers, B, T, hasC, hasG) ==
    LET input == <<B, a.residual_channels, T>>
        fail(e) == [outcome |-> e, input |-> input, x |-> NoShape, s |-> NoShape,
                    skip_used |-> FALSE]
        Tconv == ConvOutLen(T, a.kernel_size, layers.padding, a.dilation)
        Tc == IF hasC THEN Broadcast(Tconv, T) ELSE Tconv
        Tg == IF hasG THEN Broadcast(Tc, 1) ELSE Tc
    IN  IF hasC /\ ~layers.has_aux THEN fail("TypeError")       \* line 142
        ELSE IF Tc = 0 THEN fail("RuntimeError")                \* line 144
        ELSE IF hasG /\ ~layers.has_glo THEN fail("TypeError")  \* line 148
        ELSE IF a.skip_channels > 0 /\ ~layers.has_skip
        THEN fail("AttributeError")                             \* line 157
        ELSE IF Broadcast(Tg, T) = 0
        THEN [fail("RuntimeError") EXCEPT !.skip_used = a.skip_channels > 0]  \* line 160
        ELSE [outcome |-> "returned", input |-> input,
              x |-> <<B, a.residual_channels, Broadcast(Tg, T)>>,
              s |-> SkipShape(a.skip_channels, B, Tg),
              skip_used |-> a.skip_channels > 0]

\* a call WaveNetResidualBlock(...) about to run
RbStart ==
    /\ rb_args \in [kernel_size : 1..MaxKernelSize, dilation : 1..MaxDilation,
                    use_causal_conv : BOOLEAN, residual_channels : ResidualChannels,
                    gate_channels : GateChannels, skip_channels : SkipChannels,
                    aux_channels : CondChannels, global_channels : CondChannels]
    /\ rb_layers = NoLayers
    /\ rb_out = NoOutput
    /\ rb_pc = "new"

\* lines 75-112: __init__ with accepted arguments
RbConstruct ==
    /\ rb_pc = "new"
    /\ KernelSizeOk(rb_args.kernel_size, rb_args.use_causal_conv)
    /\ rb_layers' = BuildLayers(rb_args)
    /\ rb_pc' = "ready"
    /\ UNCHANGED <<rb_args, rb_out>>

\* line 82: __init__ rejects an even kernel size of a non-causal convolution
RbReject ==
    /\ rb_pc = "new"
    /\ ~KernelSizeOk(rb_args.kernel_size, rb_args.use_causal_conv)
    /\ rb_pc' = "AssertionError"
    /\ UNCHANGED <<rb_args, rb_layers, rb_out>>

\* one call of forward
RbForward ==
    /\ rb_pc = "ready"
    /\ \E B \in BatchDims, T \in 1..MaxT, hasC \in BOOLEAN, hasG \in BOOLEAN :
          rb_out' = ForwardBlock(rb_args, rb_layers, B, T, hasC, hasG)
    /\ UNCHANGED <<rb_args, rb_layers, rb_pc>>

\* no block constructed
RbIdle ==
    /\ rb_args = <<>>
    /\ rb_layers = NoLayers
    /\ rb_out = NoOutput
    /\ rb_pc = "idle"

\* ------------------------------------------------------------------------
\* CompareValueTrigger
\* ------------------------------------------------------------------------
MaxTriggerCalls == 4    \* largest number of calls of the trigger
ObsValues == {1, 2, 3}  \* values observed under the key
CompareFns == {"lt", "gt"}

\* Values are exact fractions num/den in lowest terms; None has den = 0.
None == [num |-> 0, den |-> 0]
EmptySummary == [sum |-> 0, n |-> 0]

RECURSIVE Gcd(_, _)
Gcd(a, b) == IF b = 0 THEN a ELSE Gcd(b, a % b)

\* line 139: summary.add({key: observation[key]})
SummaryAdd(summ, x) == [sum |-> summ.sum + x, n |-> summ.n + 1]

\* lines 144-145: float(summary.compute_mean()[key]), for a key that was added
MeanOf(summ) ==
    LET g == Gcd(summ.sum, summ.n)
    IN [num |-> summ.sum \div g, den |-> summ.n \div g]

\* a < b on values
Less(a, b) == a.num * b.den < b.num * a.den

\* line 152: self._compare_fn(self._best_value, value)
MutCompare(fn, best, value) ==
    IF fn = "lt" THEN Less(value, best) ELSE Less(best, value)
Compare(fn, best, value) ==
    IF fn = "lt" THEN Less(best, value) ELSE Less(value, best)

\* lines 148-156: the value returned by an interval evaluation
TriggerResult(fn, best, value) ==
    IF best = None THEN FALSE ELSE Compare(fn, best, value)

\* lines 148-156: self._best_value after an interval evaluation
MutNextBest(fn, best, value) ==
    IF best = None THEN value ELSE best
NextBest(fn, best, value) ==
    IF best = None THEN value
    ELSE IF Compare(fn, best, value) THEN best
    ELSE value

\* lines 134-156: __call__(trainer), where hasObs says whether the key is in
\* trainer.observation, obs is its value and fires is what the interval trigger
\* returns. With nothing added since the last reset compute_mean() returns an
\* empty dict and stats[key] raises KeyError.
TriggerCall(fn, best, summ, hasObs, obs, fires) ==
    LET acc == IF hasObs THEN SummaryAdd(summ, obs) ELSE summ
    IN  IF ~fires
        THEN [outcome |-> "False", best |-> best, summary |-> acc, value |-> None]
        ELSE IF acc.n = 0
        THEN [outcome |-> "KeyError", best |-> best, summary |-> acc, value |-> None]
        ELSE LET value == MeanOf(acc)
             IN [outcome |-> IF TriggerResult(fn, best, value) THEN "True" ELSE "False",
                 best |-> NextBest(fn, best, value),
                 summary |-> EmptySummary,
                 value |-> value]

NoCall == [hasObs |-> FALSE, obs |-> 0, fires |-> FALSE, best_before |-> None,
           summary_before |-> EmptySummary, outcome |-> "none", value |-> None]

\* lines 127-132: __init__
TrStart ==
    /\ compare_fn \in CompareFns
    /\ best_value = None
    /\ summary = EmptySummary
    /\ tr_means = <<>>
    /\ tr_fired = 0
    /\ tr_calls = 0
    /\ tr_last = NoCall

\* lines 134-156: one call of the trigger
TrCall ==
    /\ tr_calls < MaxTriggerCalls
    /\ \E hasObs \in BOOLEAN, fires \in BOOLEAN :
       \E obs \in (IF hasObs THEN ObsValues ELSE {0}) :
          LET r == TriggerCall(compare_fn, best_value, summary, hasObs, obs, fires)
          IN /\ best_value' = r.best
             /\ summary' = r.summary
             /\ tr_means' = IF r.value # None THEN Append(tr_means, r.value) ELSE tr_means
             /\ tr_fired' = IF fires THEN tr_fired + 1 ELSE tr_fired
             /\ tr_last' = [hasObs |-> hasObs, obs |-> obs, fires |-> fires,
                            best_before |-> best_value, summary_before |-> summary,
                            outcome |-> r.outcome, value |-> r.value]
    /\ tr_calls' = tr_calls + 1
    /\ UNCHANGED compare_fn

\* no trigger constructed
TrIdle ==
    /\ compare_fn = "lt"
    /\ best_value = None
    /\ summary = EmptySummary
    /\ tr_means = <<>>
    /\ tr_fired = 0
    /\ tr_calls = 0
    /\ tr_last = NoCall

\* ------------------------------------------------------------------------
\* Specifications
\* ------------------------------------------------------------------------
MbInit == MbStart /\ LdIdle /\ FeIdle /\ CiIdle /\ RbIdle /\ TrIdle
MbNext ==
    \/ MbSort /\ UNCHANGED <<ld_vars, fe_vars, ci_vars, rb_vars, tr_vars>>
    \/ MbIndexError /\ UNCHANGED <<ld_vars, fe_vars, ci_vars, rb_vars, tr_vars>>
    \/ MbIterate /\ UNCHANGED <<ld_vars, fe_vars, ci_vars, rb_vars, tr_vars>>
    \/ MbReturn /\ UNCHANGED <<ld_vars, fe_vars, ci_vars, rb_vars, tr_vars>>
SpecBatch == MbInit /\ [][MbNext]_vars

LdInit == LdStart /\ MbIdle /\ FeIdle /\ CiIdle /\ RbIdle /\ TrIdle
LdNext ==
    \/ LdOpen /\ UNCHANGED <<mb_vars, fe_vars, ci_vars, rb_vars, tr_vars>>
    \/ LdReadLine /\ UNCHANGED <<mb_vars, fe_vars, ci_vars, rb_vars, tr_vars>>
    \/ LdFinish /\ UNCHANGED <<mb_vars, fe_vars, ci_vars, rb_vars, tr_vars>>
SpecDict == LdInit /\ [][LdNext]_vars

FeInit == FeStart /\ MbIdle /\ LdIdle /\ CiIdle /\ RbIdle /\ TrIdle
FeNext == FeForward /\ UNCHANGED <<mb_vars, ld_vars, ci_vars, rb_vars, tr_vars>>
SpecFrontend == FeInit /\ [][FeNext]_vars

CiInit == CiStart /\ MbIdle /\ LdIdle /\ FeIdle /\ RbIdle /\ TrIdle
CiNext ==
    \/ CiParseLine /\ UNCHANGED <<mb_vars, ld_vars, fe_vars, rb_vars, tr_vars>>
    \/ CiExtend /\ UNCHANGED <<mb_vars, ld_vars, fe_vars, rb_vars, tr_vars>>
    \/ CiCheckLibrary /\ UNCHANGED <<mb_vars, ld_vars, fe_vars, rb_vars, tr_vars>>
    \/ CiSummary /\ UNCHANGED <<mb_vars, ld_vars, fe_vars, rb_vars, tr_vars>>
    \/ CiCuda /\ UNCHANGED <<mb_vars, ld_vars, fe_vars, rb_vars, tr_vars>>
SpecInstall == CiInit /\ [][CiNext]_vars

RbInit == RbStart /\ MbIdle /\ LdIdle /\ FeIdle /\ CiIdle /\ TrIdle
RbNext ==
    \/ RbConstruct /\ UNCHANGED <<mb_vars, ld_vars, fe_vars, ci_vars, tr_vars>>
    \/ RbReject /\ UNCHANGED <<mb_vars, ld_vars, fe_vars, ci_vars, tr_vars>>
    \/ RbForward /\ UNCHANGED <<mb_vars, ld_vars, fe_vars, ci_vars, tr_vars>>
SpecResBlock == RbInit /\ [][RbNext]_vars

TrInit == TrStart /\ MbIdle /\ LdIdle /\ FeIdle /\ CiIdle /\ RbIdle
TrNext == TrCall /\ UNCHANGED <<mb_vars, ld_vars, fe_vars, ci_vars, rb_vars>>
SpecTrigger == TrInit /\ [][TrNext]_vars

\* ------------------------------------------------------------------------
\* Properties of make_batchset
\* ------------------------------------------------------------------------
\* the first (longest) utterance of a batch, its factor, and whether the batch
\* size computed for it was raised to the floor of 1
FirstOf(batch) == batch[1]
FactorOf(batch) ==
    Factor(FirstOf(batch).ilen, FirstOf(batch).olen, max_length_in, max_length_out)
Floored(batch) == batch_size \div (1 + FactorOf(batch)) < 1
WithinBudget(batch) == Len(batch) * FirstOf(batch).ilen <= batch_size * max_length_in

\* C1 as stated: every returned batch, a floored one included, satisfies
\* size * (input length of its first utterance) <= batch_size * max_length_in.
C1_EveryBatchWithinBudget ==
    mb_pc = "done" => \A k \in 1..Len(minibatch) : WithinBudget(minibatch[k])

\* C1 amended: every returned batch whose computed size was not raised to the
\* floor satisfies size * (input length of its first utterance) <=
\* batch_size * max_length_in; a batch raised to the floor holds one utterance.
C1_UnflooredBatchWithinBudget ==
    mb_pc = "done" =>
        \A k \in 1..Len(minibatch) :
            /\ Len(minibatch[k]) >= 1
            /\ IF Floored(minibatch[k]) THEN Len(minibatch[k]) = 1
               ELSE WithinBudget(minibatch[k])

\* a result with a batch shrunk to several utterances within the budget and a
\* floored batch of one utterance beyond it
C1_Witness ==
    /\ mb_pc = "done"
    /\ \E k \in 1..Len(minibatch) :
          /\ ~Floored(minibatch[k]) /\ FactorOf(minibatch[k]) >= 1
          /\ Len(minibatch[k]) >= 2 /\ WithinBudget(minibatch[k])
    /\ \E k \in 1..Len(minibatch) :
          Floored(minibatch[k]) /\ ~WithinBudget(minibatch[k])

\* whether the batch's size is decided by its input length
InputDominates(batch) ==
    FirstOf(batch).olen \div max_length_out <= FirstOf(batch).ilen \div max_length_in

\* C10 as stated: among the batches other than the final one, sizes are
\* non-decreasing along the returned list, whatever the output lengths are.
C10_SizesNonDecreasing ==
    mb_pc = "done" =>
        \A i, j \in 1..(Len(minibatch) - 1) :
            i < j => Len(minibatch[i]) <= Len(minibatch[j])

\* C10 amended: among the batches other than the final one, an earlier batch
\* never has more utterances than a later batch whose size is decided by its
\* input length (its output-length factor does not exceed its input-length factor).
C10_SizesNonDecreasingByInput ==
    mb_pc = "done" =>
        \A i, j \in 1..(Len(minibatch) - 1) :
            (i < j /\ InputDominates(minibatch[j])) =>
                Len(minibatch[i]) <= Len(minibatch[j])

\* a result whose non-final batches grow as the input length shrinks
C10_Witness ==
    /\ mb_pc = "done"
    /\ \E i, j \in 1..(Len(minibatch) - 1) :
          /\ i < j
          /\ InputDominates(minibatch[j])
          /\ FirstOf(minibatch[i]).ilen > FirstOf(minibatch[j]).ilen
          /\ Len(minibatch[i]) < Len(minibatch[j])

\* C11: for every finite data mapping, the empty one included, make_batchset
\* terminates by returning its list of batches: it stops nowhere but at its
\* return, and the walk index always points at an utterance.
C11_TerminatesWithList ==
    /\ mb_pc \in {"sort", "loop", "truncate", "done"}
    /\ mb_pc = "loop" => start < Len(sorted_data)
    /\ mb_pc = "done" \/ ENABLED MbNext

\* the batches of a list, one after the other
RECURSIVE Concat(_)
Concat(batches) ==
    IF batches = <<>> THEN <<>> ELSE Head(batches) \o Concat(Tail(batches))

\* seq holds every utterance of the data mapping exactly once
IsPermutationOfData(seq) ==
    /\ Len(seq) = Len(data)
    /\ \A i \in 1..Len(data) : \E k \in 1..Len(seq) : seq[k] = data[i]

\* seq is ordered by input length, long to short
IsDescending(seq) ==
    \A k \in 1..(Len(seq) - 1) : seq[k].ilen >= seq[k + 1].ilen

\* C12: with num_batches = 0 and a non-empty data mapping, the batches are
\* non-empty slices of the utterances sorted by input length descending, their
\* concatenation is that whole list (every utterance exactly once), and each
\* batch has between 1 and batch_size utterances.
C12_BatchesPartitionSortedData ==
    (mb_pc = "done" /\ num_batches = 0 /\ data # <<>>) =>
        /\ Concat(minibatch) = sorted_data
        /\ IsPermutationOfData(Concat(minibatch))
        /\ IsDescending(Concat(minibatch))
        /\ \A k \in 1..Len(minibatch) :
              Len(minibatch[k]) >= 1 /\ Len(minibatch[k]) <= batch_size

\* an unsorted mapping was split into several batches, one of several utterances
C12_Witness ==
    /\ mb_pc = "done" /\ num_batches = 0
    /\ ~IsDescending(data)
    /\ Len(minibatch) >= 2
    /\ \E k \in 1..Len(minibatch) : Len(minibatch[k]) >= 2
    /\ Concat(minibatch) = sorted_data

\* ------------------------------------------------------------------------
\* Properties of check_install
\* ------------------------------------------------------------------------
\* the library at index i cannot be imported, or its version differs from the pin
NotCorrectlyInstalled(i) ==
    LET lib == library_list[i + 1]
        m == ImportModule(installed, lib.name)
    IN  \/ m = "absent"
        \/ lib.pinned /\ m \notin {"ValueError", "noattr"} /\ <<m>> # lib.version

\* C2: a library that cannot be imported (pinned or not) or whose version
\* differs from the pinned one is warned about and recorded as not correctly
\* installed, and the loop goes on to the next library without an uncaught exception.
C2_FailuresAreWarnings ==
    ci_pc \in {"check", "cuda", "done", "crashed"} =>
        \A i \in 0..(Len(is_collect_installed_list) - 1) :
            NotCorrectlyInstalled(i) =>
                /\ is_collect_installed_list[i + 1] = FALSE
                /\ \E w \in 1..Len(ci_warnings) :
                      /\ ci_warnings[w].idx = i
                      /\ ci_warnings[w].kind \in {"not installed", "version not matched"}
                /\ ~(ci_pc = "crashed" /\ ci_idx = i)

\* ------------------------------------------------------------------------
\* Properties of WaveNetResidualBlock
\* ------------------------------------------------------------------------
\* C3: for every accepted configuration and every input (B, residual_channels, T),
\* forward returns a residual output of the input's shape (conditioning inputs
\* given without their layer aside).
C3_ResidualShapeIsInputShape ==
    (rb_pc = "ready" /\ rb_out.outcome \notin {"none", "TypeError"}) =>
        (rb_out.outcome = "returned" /\ rb_out.x = rb_out.input)

\* C9: forward returns a skip output with exactly skip_channels channels when
\* skip_channels > 0 and none otherwise; the skip projection exists and is used
\* only when skip_channels > 0.
C9_SkipOutput ==
    rb_pc = "ready" =>
        /\ rb_layers.has_skip <=> rb_args.skip_channels > 0
        /\ rb_out.skip_used => rb_args.skip_channels > 0
        /\ rb_out.outcome = "returned" =>
              IF rb_args.skip_channels > 0
              THEN /\ rb_out.s # NoShape
                   /\ rb_out.s[2] = rb_args.skip_channels
                   /\ rb_out.skip_used
              ELSE rb_out.s = NoShape

\* forward has returned a skip output of two channels
C9_Witness ==
    /\ rb_pc = "ready"
    /\ rb_out.outcome = "returned"
    /\ rb_args.skip_channels = 2
    /\ rb_out.s # NoShape
    /\ rb_out.s[2] = 2

\* ------------------------------------------------------------------------
\* Properties of load_labeldict
\* ------------------------------------------------------------------------
\* C4: the returned mapping maps <blank> to 0, whatever the file holds.
C4_BlankIsZero ==
    ld_pc = "done" => labeldict["<blank>"] = 0

\* C5: when the file has no <eos> line, the id given to <eos> is held by no
\* other symbol of the returned mapping.
C5_EosIdIsFresh ==
    (ld_pc = "done" /\ \A k \in 1..Len(dict_file) : dict_file[k][1] # "<eos>") =>
        \A sym \in DOMAIN labeldict \ {"<eos>"} : labeldict[sym] # labeldict["<eos>"]

\* ------------------------------------------------------------------------
\* Properties of Frontend.forward
\* ------------------------------------------------------------------------
AllEnabled == use_wpe /\ use_beamformer /\ use_dnn_mask_for_wpe

\* C6: a 3-dimensional input whose length matches ilens is returned as it is,
\* with the same length values, and no stage is invoked, in every configuration.
C6_ThreeDimUnchanged ==
    \A k \in 1..Len(fe_calls) :
        (fe_calls[k].call.dim = 3 /\ fe_calls[k].call.lenOk) =>
            /\ fe_calls[k].outcome = "returned"
            /\ fe_calls[k].h = InputTensor(3)
            /\ fe_calls[k].ilens.src = "ilens"
            /\ fe_calls[k].ilens.ops = <<>>

\* a 3-dimensional input came back unchanged from a frontend with both stages
\* enabled, in training mode
C6_Witness ==
    \E k \in 1..Len(fe_calls) :
        /\ fe_calls[k].call.dim = 3
        /\ fe_calls[k].call.lenOk
        /\ AllEnabled /\ training
        /\ fe_calls[k].outcome = "returned"
        /\ fe_calls[k].h = InputTensor(3)

\* C7 as stated: every input of fewer than 3 or more than 4 dimensions gets a
\* ValueError with no stage invoked, and 3 or 4 dimensions get no ValueError.
C7_ValueErrorOnBadDim ==
    \A k \in 1..Len(fe_calls) :
        IF fe_calls[k].call.dim \in {3, 4}
        THEN fe_calls[k].outcome # "ValueError"
        ELSE fe_calls[k].outcome = "ValueError" /\ fe_calls[k].h = NoTensor

\* C7 amended: every input of 1, 2 or more than 4 dimensions whose length
\* matches ilens gets a ValueError with no stage invoked, and 3 or 4
\* dimensions get no ValueError.
C7_ValueErrorOnBadDimAfterLengthCheck ==
    \A k \in 1..Len(fe_calls) :
        IF fe_calls[k].call.dim \in {3, 4}
        THEN fe_calls[k].outcome # "ValueError"
        ELSE (fe_calls[k].call.dim >= 1 /\ fe_calls[k].call.lenOk) =>
                (fe_calls[k].outcome = "ValueError" /\ fe_calls[k].h = NoTensor)

\* a 5-dimensional and a 2-dimensional input were both refused with ValueError
\* by a frontend with a stage enabled
C7_Witness ==
    /\ use_wpe
    /\ \E k \in 1..Len(fe_calls) :
          fe_calls[k].call.dim = 5 /\ fe_calls[k].outcome = "ValueError"
    /\ \E k \in 1..Len(fe_calls) :
          fe_calls[k].call.dim = 2 /\ fe_calls[k].outcome = "ValueError"

\* C8: in training mode with use_wpe, use_beamformer and use_dnn_mask_for_wpe
\* all true, a call on a 4-dimensional input (that passes the length check)
\* applies exactly one of WPE and the beamformer.
C8_ExactlyOneStage ==
    \A k \in 1..Len(fe_calls) :
        (training /\ AllEnabled /\ fe_calls[k].call.dim = 4 /\ fe_calls[k].call.lenOk) =>
            /\ fe_calls[k].outcome = "returned"
            /\ fe_calls[k].h.ops \in {<<"wpe">>, <<"beamformer">>}
            /\ fe_calls[k].ilens.ops = fe_calls[k].h.ops

\* both choices happen: one call applied WPE alone, another the beamformer alone
C8_Witness ==
    /\ training /\ AllEnabled
    /\ \E k \in 1..Len(fe_calls) :
          fe_calls[k].call.dim = 4 /\ fe_calls[k].h.ops = <<"wpe">>
    /\ \E k \in 1..Len(fe_calls) :
          fe_calls[k].call.dim = 4 /\ fe_calls[k].h.ops = <<"beamformer">>

\* the stages a call must apply when nothing is selected at random
ConfiguredStages ==
    (IF use_wpe THEN <<"wpe">> ELSE <<>>) \o
    (IF use_beamformer THEN <<"beamformer">> ELSE <<>>)

\* C14: on a 4-dimensional input (that passes the length check), when the
\* random selection does not apply, WPE runs iff use_wpe and the beamformer iff
\* use_beamformer, WPE first and the beamformer on what WPE returned; with
\* neither enabled the input comes back unchanged.
C14_ConfiguredStagesInOrder ==
    \A k \in 1..Len(fe_calls) :
        (~(training /\ AllEnabled) /\ fe_calls[k].call.dim = 4 /\ fe_calls[k].call.lenOk) =>
            /\ fe_calls[k].outcome = "returned"
            /\ fe_calls[k].h.src = "x"
            /\ fe_calls[k].h.ops = ConfiguredStages
            /\ fe_calls[k].ilens.src = "ilens"
            /\ fe_calls[k].ilens.ops = ConfiguredStages
            /\ fe_calls[k].h.dim = IF use_beamformer THEN 3 ELSE 4
            /\ ConfiguredStages = <<>> => fe_calls[k].h = InputTensor(4)

\* in evaluation mode with both stages enabled, a call applied WPE and then
\* the beamformer
C14_Witness ==
    /\ ~training /\ AllEnabled
    /\ \E k \in 1..Len(fe_calls) :
          /\ fe_calls[k].call.dim = 4
          /\ fe_calls[k].outcome = "returned"
          /\ fe_calls[k].h.ops = <<"wpe", "beamformer">>
          /\ fe_calls[k].ilens.ops = <<"wpe", "beamformer">>

\* ------------------------------------------------------------------------
\* Properties of CompareValueTrigger
\* ------------------------------------------------------------------------
\* what the last call accumulated: the summary it found plus its observation
Accumulated ==
    IF tr_last.hasObs THEN SummaryAdd(tr_last.summary_before, tr_last.obs)
    ELSE tr_last.summary_before

\* the last call returned True exactly when the trigger fired, a best value was
\* recorded before and compare_fn(best, mean of the accumulated observations) holds
TrueExactlyOnWorseMean ==
    tr_last.outcome = "True" <=>
        /\ tr_last.fires
        /\ tr_last.best_before # None
        /\ Accumulated.n > 0
        /\ IF compare_fn = "lt" THEN Less(tr_last.best_before, MeanOf(Accumulated))
           ELSE Less(MeanOf(Accumulated), tr_last.best_before)

\* C13 as stated: True exactly on a firing call with a recorded best value that
\* compare_fn holds against the interval mean; False on every call where the
\* trigger does not fire and on the first call where it fires; a call that
\* returns True leaves the best value unchanged.
C13_TriggerResult ==
    tr_calls > 0 =>
        /\ TrueExactlyOnWorseMean
        /\ ~tr_last.fires => tr_last.outcome = "False"
        /\ (tr_last.fires /\ tr_fired = 1) => tr_last.outcome = "False"
        /\ tr_last.outcome = "True" => best_value = tr_last.best_before

\* C13 amended: as C13, but False is returned on the first interval evaluation
\* that finds an observation of the key: a firing call with no observation
\* accumulated since the previous evaluation raises KeyError and changes nothing.
C13_TriggerResultWithObservation ==
    tr_calls > 0 =>
        /\ TrueExactlyOnWorseMean
        /\ ~tr_last.fires => tr_last.outcome = "False"
        /\ (tr_last.fires /\ tr_last.best_before = None /\ Accumulated.n > 0) =>
              (tr_last.outcome = "False" /\ best_value = MeanOf(Accumulated))
        /\ (tr_last.fires /\ Accumulated.n = 0) =>
              (tr_last.outcome = "KeyError" /\ best_value = tr_last.best_before
                 /\ summary = tr_last.summary_before)
        /\ tr_last.outcome = "True" => best_value = tr_last.best_before

\* the trigger returned True on a mean of several observations, after a first
\* evaluation that returned False, and kept its best value
C13_Witness ==
    /\ tr_last.outcome = "True"
    /\ Accumulated.n >= 2
    /\ Len(tr_means) >= 2
    /\ best_value = tr_last.best_before
    /\ best_value # None

\* the smallest of a non-empty sequence of values
RECURSIVE MinOf(_)
MinOf(vs) ==
    IF Len(vs) = 1 THEN vs[1]
    ELSE LET m == MinOf(Tail(vs))
         IN IF Less(m, vs[1]) THEN m ELSE vs[1]

\* the interval means computed before the last call
MeansBefore ==
    IF tr_last.value # None THEN SubSeq(tr_means, 1, Len(tr_means) - 1) ELSE tr_means

\* C15: with compare_fn(best, current) = best < current, the best value is the
\* minimum of the interval means computed so far (None only before the first),
\* and the trigger returns True exactly when the current interval mean is
\* strictly greater than the minimum of the earlier ones.
C15_BestIsRunningMinimum ==
    compare_fn = "lt" =>
        /\ best_value = None <=> tr_means = <<>>
        /\ tr_means # <<>> => best_value = MinOf(tr_means)
        /\ tr_last.outcome = "True" <=>
              (tr_last.value # None /\ MeansBefore # <<>>
                 /\ Less(MinOf(MeansBefore), tr_last.value))

\* after a mean above the minimum (True) a lower mean became the best value
C15_Witness ==
    /\ compare_fn = "lt"
    /\ Len(tr_means) >= 3
    /\ \E k \in 1..(Len(tr_means) - 1) : Less(MinOf(SubSeq(tr_means, 1, k)), tr_means[k + 1])
    /\ tr_last.value # None
    /\ Less(tr_last.value, tr_last.best_before)
    /\ best_value = tr_last.value

=============================================================================
